---------------------------- MODULE Spec2Model ----------------------------
(***************************************************************************)
(* The concurrency core of the DAP front-end of the Boa debugger:          *)
(*   T1  the request thread  (DapServer::handle_request, DebugSession)     *)
(*   T2  the evaluation worker (DebugEvalContext::new, DebugHooks)         *)
(*   T3  the event forwarder (DebugSession::handle_launch)                 *)
(* and the CLI's TCP request loop with its two sequence counters.          *)
(***************************************************************************)
EXTENDS Integers, Sequences, FiniteSets, TLC

(* ------------------------------ bounds -------------------------------- *)
\* client operations handled in one session
MaxReq == 2
\* instructions of the launched script
MaxInstr == 2
\* request seq numbers the client may choose
MaxReqSeq == 2
\* source paths and lines a setBreakpoints request may name
NumPaths == 2
MaxLine == 1
\* entries of the breakpoints array of one setBreakpoints request
MaxBps == 2
\* framed messages on the input of a request loop
MaxFrames == 2
\* console.log calls of a script run by the CLI launch
MaxLogs == 1

(* ----------------------------- constants ------------------------------ *)
\* handle_tcp_client: Arc::new(Mutex::new(100i64))
LoggerSeqStart == 100

VARIABLES
    paused,                   \* Debugger: is_paused()
    shutting_down,            \* Debugger: is_shutting_down()
    step_mode,                \* Debugger: step mode
    breakpoints,              \* Debugger: (script, line) -> breakpoint id
    next_boa_bp,              \* Debugger: next internal breakpoint id
    eval_context,             \* DebugSession.eval_context: "none" | "some" | "dropped"
    program_path,             \* DebugSession.program_path is Some
    source_to_script,         \* DebugSession.source_to_script
    breakpoint_mapping,       \* DebugSession.breakpoint_mapping
    next_breakpoint_id,       \* DebugSession.next_breakpoint_id
    initialized,              \* DebugSession.initialized and DapServer.initialized
    running,                  \* DebugSession.running
    stopped_reason,           \* DebugSession.stopped_reason
    variable_references,      \* DebugSession.variable_references (its keys)
    next_variable_reference,  \* DebugSession.next_variable_reference
    seq,                      \* DapServer.seq
    seq_counter,              \* the CLI logger's seq_counter
    task_chan,                \* mpsc channel of EvalTask
    event_chan,               \* mpsc channel of DebugEvent
    reply,                    \* the result channel of T1's outstanding task
    t1,                       \* position of the request thread
    request,                  \* the request T1 is handling
    responses,                \* what handle_request returned, not yet written
    w,                        \* position of the worker thread
    hook,                     \* the host hook the worker is inside
    instrLeft,                \* instructions the running script has left
    fwd,                      \* position of the event forwarder
    handled,                  \* events the forwarder has passed to event_handler
    pauseNo,                  \* Stopped events sent so far by the hooks
    nreq,                     \* client operations so far
    outbound,                 \* messages written to the client, in order
    mode,                     \* the transport whose request loop reads the input
    frames,                   \* the framed messages the client put on the input
    stream,                   \* the part of the input not yet read
    lp,                       \* position of the request loop's reader
    content_length,           \* the loop's content_length
    received,                 \* the bodies decoded as requests and dispatched
    writer,                   \* the thread that holds the lock of `writer`
    wire,                     \* what the threads wrote to the stream, in order
    wpos,                     \* position of each thread that writes to the stream
    pending,                  \* the messages T1 has still to write for its request
    nmsg,                     \* messages the threads have set out to write
    mutex,                    \* the thread that holds the lock of `debugger`
    at                        \* position of each thread, lock by lock

vars == << paused, shutting_down, step_mode, breakpoints, next_boa_bp,
           eval_context, program_path, source_to_script, breakpoint_mapping,
           next_breakpoint_id, initialized, running, stopped_reason,
           variable_references, next_variable_reference, seq, seq_counter,
           task_chan, event_chan, reply, t1, request, responses, w, hook,
           instrLeft, fwd, handled, pauseNo, nreq, outbound, mode, frames,
           stream, lp, content_length, received, writer, wire, wpos,
           pending, nmsg, mutex, at >>

mutexVars == << mutex, at >>
writerVars == << writer, wire, wpos, pending, nmsg >>
frameVars == << mode, frames, stream, lp, content_length, received >>
debuggerVars == << paused, shutting_down, step_mode, breakpoints, next_boa_bp >>
bpVars == << breakpoints, next_boa_bp, source_to_script, breakpoint_mapping,
             next_breakpoint_id >>
sessionVars == << eval_context, program_path, initialized, running,
                  stopped_reason, variable_references, next_variable_reference >>
workerVars == << w, hook, instrLeft, pauseNo >>
chanVars == << task_chan, event_chan, reply >>

\* request.arguments: whether serde_json::from_value turns them into the
\* command's record, and what a setBreakpoints request carries
NoArguments == [decoded |-> TRUE, path |-> 0, lines |-> << >>]
Undecodable == [decoded |-> FALSE, path |-> 0, lines |-> << >>]
NoReq == [seq |-> 0, command |-> "none", arguments |-> NoArguments]
NoReply == [state |-> "none", pause |-> 0]

(* --------------------- DebugSession::new, DapServer::new --------------- *)
\* the session, its server and its channels right after construction
InitSession ==
    /\ paused = FALSE
    /\ shutting_down = FALSE
    /\ step_mode = << "None", 0 >>
    /\ breakpoints = {}
    /\ next_boa_bp = 1
    /\ eval_context = "none"
    /\ program_path = FALSE
    /\ source_to_script = {}
    /\ breakpoint_mapping = {}
    /\ next_breakpoint_id = 1
    /\ initialized = FALSE
    /\ running = FALSE
    /\ stopped_reason = "None"
    /\ variable_references = {}
    /\ next_variable_reference = 1
    /\ seq = 1
    /\ seq_counter = LoggerSeqStart
    /\ task_chan = << >>
    /\ event_chan = << >>
    /\ reply = NoReply
    /\ t1 = "idle"
    /\ request = NoReq
    /\ responses = << >>
    /\ w = "none"
    /\ hook = "none"
    /\ instrLeft = 0
    /\ fwd = "none"
    /\ handled = << >>
    /\ pauseNo = 0
    /\ nreq = 0
    /\ outbound = << >>

\* the lock of `debugger` is not followed
MutexUntraced ==
    /\ mutex = "none"
    /\ at = [th \in {"T1", "T2"} |-> "off"]

\* no thread writes frames to a shared stream
WriterUnused ==
    /\ MutexUntraced
    /\ writer = "none"
    /\ wire = << >>
    /\ wpos = [th \in {"T1", "T3"} |-> "off"]
    /\ pending = << >>
    /\ nmsg = 0

\* the requests arrive decoded: the reader of the input plays no part
Init ==
    /\ InitSession
    /\ mode = "none"
    /\ frames = << >>
    /\ stream = << >>
    /\ lp = "none"
    /\ content_length = 0
    /\ received = << >>
    /\ WriterUnused


(* ------------------- Debugger (pause/resume state) --------------------- *)
is_paused == paused
is_shutting_down == shutting_down
pause == paused' = TRUE
resume == paused' = FALSE
shutdown == shutting_down' = TRUE
step_over(depth) == step_mode' = << "Over", depth >>
step_in == step_mode' = << "Into", 0 >>
step_out(depth) == step_mode' = << "Out", depth >>

(* ------------------------- channels, condvar --------------------------- *)
IsInspection(task) == task \in {"GetStackTrace", "Evaluate"}
IsExecution(task) == task \in {"Execute", "ExecuteNonBlocking"}

\* the tasks that carry a result_tx
HasResultTx(task) == IsInspection(task) \/ task = "Execute"

\* a notify_all that wakes nobody
NotifyLost(pc) == pc

\* Condvar::notify_all: a thread asleep in Condvar::wait wakes up; the wait
\* loop then drops the guard and goes back to draining the task channel.
NotifyAll(pc) == IF pc = "wait" THEN "drain" ELSE pc

\* a receiver that outlives the worker thread: the queued tasks stay queued
ReceiverLeaked ==
    /\ task_chan' = task_chan
    /\ reply' = reply

\* The receiver of the task channel is dropped with the worker thread: every
\* queued task is dropped, and with it the result_tx it carries.
ReceiverDropped ==
    /\ task_chan' = << >>
    /\ reply' = IF \E i \in 1..Len(task_chan) : HasResultTx(task_chan[i])
                THEN [state |-> "closed", pause |-> 0]
                ELSE reply

StoppedEvent(reason) == [type |-> "Stopped", reason |-> reason, pause |-> pauseNo + 1]
ShutdownEvent == [type |-> "Shutdown", reason |-> "", pause |-> pauseNo]

\* a send on a channel whose receiver is gone from the start
EventSendFailed(event) == event_chan

\* `let _ = self.event_tx.send(event)`: the send fails, and is ignored, once
\* the forwarder has dropped the receiver
EventSend(event) ==
    IF fwd = "exited" THEN event_chan ELSE Append(event_chan, event)

(* ------------------ T2: the evaluation worker thread ------------------- *)
\* ContextBuilder::build, context_setup, Debugger::attach succeed
WorkerStartOk ==
    /\ w = "start"
    /\ w' = "recv"
    /\ UNCHANGED << frameVars, writerVars, mutexVars >>
    /\ UNCHANGED << debuggerVars, bpVars, sessionVars, seq, seq_counter, chanVars,
                    t1, request, responses, hook, instrLeft, fwd, handled, pauseNo, nreq,
                    outbound >>

\* one of them fails: the thread returns before its task loop
WorkerStartFail ==
    /\ w = "start"
    /\ w' = "exited"
    /\ ReceiverDropped
    /\ UNCHANGED << frameVars, writerVars, mutexVars >>
    /\ UNCHANGED << debuggerVars, bpVars, sessionVars, seq, seq_counter, event_chan,
                    t1, request, responses, hook, instrLeft, fwd, handled, pauseNo, nreq,
                    outbound >>

\* process_inspection_task: GetStackTrace and Evaluate both send Ok(..)
ProcessInspectionTask(pauseTag) == [state |-> "ok", pause |-> pauseTag]

\* the task loop: task_rx.recv() returned a task
WorkerRecv ==
    /\ w = "recv"
    /\ task_chan # << >>
    /\ LET task == Head(task_chan) IN
       CASE task = "ExecuteNonBlocking" ->
              /\ \E n \in 0..MaxInstr : instrLeft' = n
              /\ w' = "run"
              /\ task_chan' = Tail(task_chan)
              /\ UNCHANGED reply
         [] task = "Execute" ->
              /\ \E n \in 0..MaxInstr : instrLeft' = n
              /\ w' = "run"
              /\ task_chan' = Tail(task_chan)
              /\ reply' = [state |-> "held", pause |-> 0]
         [] task = "Terminate" ->
              /\ w' = "exited"
              /\ ReceiverDropped
              /\ UNCHANGED instrLeft
         [] OTHER ->
              /\ reply' = ProcessInspectionTask(0)
              /\ task_chan' = Tail(task_chan)
              /\ UNCHANGED << w, instrLeft >>
    /\ UNCHANGED << frameVars, writerVars, mutexVars >>
    /\ UNCHANGED << debuggerVars, bpVars, sessionVars, seq, seq_counter, event_chan,
                    t1, request, responses, hook, fwd, handled, pauseNo, nreq, outbound >>

\* what context.eval hands back to the ExecuteNonBlocking arm
EvalResults == {"eval_ok", "eval_err"}

\* context.eval returned, with a value or with an interpreter error
EvalReturn ==
    /\ w = "run"
    /\ instrLeft = 0
    /\ \E result \in EvalResults : w' = result
    /\ UNCHANGED << frameVars, writerVars, mutexVars >>
    /\ UNCHANGED << debuggerVars, bpVars, sessionVars, seq, seq_counter, chanVars,
                    t1, request, responses, hook, instrLeft, fwd, handled, pauseNo, nreq,
                    outbound >>

\* ExecuteNonBlocking, `match result`: either arm writes a line to stderr;
\* run_jobs.  Execute: result_tx.send(send_result).  Back to the task loop
EvalMatch ==
    /\ w \in EvalResults
    /\ w' = "recv"
    /\ reply' = IF reply.state = "held"
                THEN [state |-> IF w = "eval_ok" THEN "ok" ELSE "err", pause |-> 0]
                ELSE reply
    /\ UNCHANGED << frameVars, writerVars, mutexVars >>
    /\ UNCHANGED << debuggerVars, bpVars, sessionVars, seq, seq_counter, task_chan,
                    event_chan,
                    t1, request, responses, hook, instrLeft, fwd, handled, pauseNo, nreq,
                    outbound >>

\* DebugHooks::on_step, called at every instruction boundary
OnStep ==
    /\ w = "run"
    /\ instrLeft > 0
    /\ IF is_paused
       THEN /\ event_chan' = EventSend(StoppedEvent("step"))
            /\ pauseNo' = pauseNo + 1
            /\ hook' = "step"
            /\ w' = "drain"
       ELSE /\ w' = "exec"
            /\ UNCHANGED << event_chan, pauseNo, hook >>
    /\ UNCHANGED << frameVars, writerVars, mutexVars >>
    /\ UNCHANGED << debuggerVars, bpVars, sessionVars, seq, seq_counter, task_chan,
                    reply, t1, request, responses, instrLeft, fwd, handled, nreq, outbound >>

\* an instruction other than `debugger;`
ExecInstruction ==
    /\ w = "exec"
    /\ instrLeft' = instrLeft - 1
    /\ w' = "run"
    /\ UNCHANGED << frameVars, writerVars, mutexVars >>
    /\ UNCHANGED << debuggerVars, bpVars, sessionVars, seq, seq_counter, chanVars,
                    t1, request, responses, hook, fwd, handled, pauseNo, nreq, outbound >>

\* DebugHooks::on_debugger_statement: self.debugger.lock().unwrap().pause()
OnDebuggerStatement ==
    /\ w = "exec"
    /\ pause
    /\ hook' = "dbg"
    /\ w' = "dbg_send"
    /\ UNCHANGED << frameVars, writerVars, mutexVars >>
    /\ UNCHANGED << shutting_down, step_mode, bpVars, sessionVars, seq,
                    seq_counter, chanVars, t1, request, responses, instrLeft, fwd, handled,
                    pauseNo, nreq, outbound >>

\* DebugHooks::on_debugger_statement: event_tx.send(Stopped{"pause"}), then
\* wait_for_resume
OnDebuggerStatementSend ==
    /\ w = "dbg_send"
    /\ event_chan' = EventSend(StoppedEvent("pause"))
    /\ pauseNo' = pauseNo + 1
    /\ w' = "drain"
    /\ UNCHANGED << frameVars, writerVars, mutexVars >>
    /\ UNCHANGED << debuggerVars, bpVars, sessionVars, seq, seq_counter, task_chan,
                    reply, t1, request, responses, hook, instrLeft, fwd, handled, nreq,
                    outbound >>

\* wait_for_resume returned Ok(()): the hook returns and the script goes on
HookReturnsOk ==
    /\ hook' = "none"
    /\ IF hook = "step"
       THEN w' = "exec" /\ UNCHANGED instrLeft
       ELSE w' = "run" /\ instrLeft' = instrLeft - 1

\* wait_for_resume returned Err: the error unwinds the script, eval returns Err
HookReturnsErr ==
    /\ hook' = "none"
    /\ instrLeft' = 0
    /\ w' = "run"

\* a wait loop that evaluates the execution task it dequeued
EvalExecutionTask(task) ==
    /\ reply' = IF task = "Execute" THEN [state |-> "held", pause |-> 0] ELSE reply
    /\ instrLeft' = MaxInstr
    /\ w' = "run"
    /\ UNCHANGED hook

\* wait_for_resume, the Execute | ExecuteNonBlocking arm: a line on stderr;
\* the task, and the result_tx of an Execute, are dropped at the end of the arm
DropExecutionTask(task) ==
    /\ reply' = IF task = "Execute" THEN [state |-> "closed", pause |-> 0] ELSE reply
    /\ UNCHANGED << w, hook, instrLeft >>

\* a wait loop that returns to the script once it has answered the task
ReturnAfterInspectionTask(task) ==
    /\ reply' = ProcessInspectionTask(pauseNo)
    /\ HookReturnsOk

\* wait_for_resume, the `other` arm: process_inspection_task sends the result
\* on the task's result_tx, a line goes to stderr, and the drain loop goes on
ServiceInspectionTask(task) ==
    /\ reply' = ProcessInspectionTask(pauseNo)
    /\ UNCHANGED << w, hook, instrLeft >>

\* wait_for_resume, drain loop: try_recv returned Ok(task)
WaitDrainTask ==
    /\ w = "drain"
    /\ task_chan # << >>
    /\ task_chan' = Tail(task_chan)
    /\ LET task == Head(task_chan) IN
       CASE IsExecution(task) -> DropExecutionTask(task)
         [] task = "Terminate" ->
              HookReturnsErr /\ UNCHANGED reply
         [] OTHER -> ServiceInspectionTask(task)
    /\ UNCHANGED << frameVars, writerVars, mutexVars >>
    /\ UNCHANGED << debuggerVars, bpVars, sessionVars, seq, seq_counter, event_chan,
                    t1, request, responses, fwd, handled, pauseNo, nreq, outbound >>

\* wait_for_resume, drain loop: try_recv returned Err(Empty)
WaitDrainEmpty ==
    /\ w = "drain"
    /\ task_chan = << >>
    /\ w' = "check"
    /\ UNCHANGED << frameVars, writerVars, mutexVars >>
    /\ UNCHANGED << debuggerVars, bpVars, sessionVars, seq, seq_counter, chanVars,
                    t1, request, responses, hook, instrLeft, fwd, handled, pauseNo, nreq,
                    outbound >>

\* the two checks in the other order
WaitCheckShutdownFirst(p, sd) == IF sd THEN "err" ELSE IF ~p THEN "ok" ELSE "wait"

\* wait_for_resume, under the debugger mutex: return Ok, return Err, or wait
WaitCheckOutcome(p, sd) == IF ~p THEN "ok" ELSE IF sd THEN "err" ELSE "wait"

WaitCheck ==
    /\ w = "check"
    /\ LET o == WaitCheckOutcome(is_paused, is_shutting_down) IN
       CASE o = "ok" -> HookReturnsOk
         [] o = "err" -> HookReturnsErr
         [] OTHER -> w' = "wait" /\ UNCHANGED << hook, instrLeft >>
    /\ UNCHANGED << frameVars, writerVars, mutexVars >>
    /\ UNCHANGED << debuggerVars, bpVars, sessionVars, seq, seq_counter, chanVars,
                    t1, request, responses, fwd, handled, pauseNo, nreq, outbound >>

\* Condvar::wait may return without a notification
SpuriousWake ==
    /\ w = "wait"
    /\ w' = "drain"
    /\ UNCHANGED << frameVars, writerVars, mutexVars >>
    /\ UNCHANGED << debuggerVars, bpVars, sessionVars, seq, seq_counter, chanVars,
                    t1, request, responses, hook, instrLeft, fwd, handled, pauseNo, nreq,
                    outbound >>

InWaitLoop == w \in {"drain", "check", "wait"}

(* -------------------- T3: the event forwarder thread ------------------- *)
\* event_handler(event), as the transport implements it: a Stopped event is
\* written to the client as a `stopped` event
EventHandler(event) ==
    IF event.type = "Stopped"
    THEN Append(outbound, [kind |-> "stopped", name |-> "stopped",
                           success |-> TRUE, pause |-> event.pause])
    ELSE outbound

\* a receiver that hands out the newest message first
ChanRecvNewest(chan) ==
    [msg |-> chan[Len(chan)], rest |-> SubSeq(chan, 1, Len(chan) - 1)]

\* mpsc::Receiver::recv: the oldest message of the channel
ChanRecv(chan) == [msg |-> Head(chan), rest |-> Tail(chan)]

\* while let Ok(event) = event_rx.recv(): every event is passed to
\* event_handler; Shutdown ends the thread, which drops the receiver
ForwarderRecv ==
    /\ fwd = "run"
    /\ event_chan # << >>
    /\ LET r == ChanRecv(event_chan) IN
         /\ handled' = Append(handled, r.msg)
         /\ outbound' = EventHandler(r.msg)
         /\ fwd' = IF r.msg.type = "Shutdown" THEN "exited" ELSE fwd
         /\ event_chan' = IF r.msg.type = "Shutdown" THEN << >> ELSE r.rest
    /\ UNCHANGED << frameVars, writerVars, mutexVars >>
    /\ UNCHANGED << debuggerVars, bpVars, sessionVars, seq, seq_counter, task_chan,
                    reply, t1, request, responses, workerVars, nreq >>


(* --------------- T1: DapServer::handle_request and its loop ------------ *)
ReqSeqs == 1..MaxReqSeq
Paths == 1..NumPaths
Lines == 1..MaxLine

\* commands whose handler decodes a typed argument record first
DecodedCommands ==
    {"initialize", "launch", "attach", "setBreakpoints", "continue", "next",
     "stepIn", "stepOut", "scopes", "variables", "evaluate"}

\* a create_response that fills request_seq with the server's own seq
CreateResponseOwnSeq(request_seq, command, success, message, body) ==
    [type |-> "response", seq |-> seq, request_seq |-> seq,
     success |-> success, command |-> command, message |-> message,
     body |-> body]

\* the message of a response, as the words of its text; None is << >>
NoMessage == << >>
\* format!("Invalid arguments: {}", e)
\* the text of the serde error
SerdeError == "e"
InvalidArguments == << "Invalid", "arguments:", SerdeError >>
\* format!("Failed to start execution: {}", e)
FailedToStart == << "Failed", "to", "start", "execution:", "e" >>
\* format!("Failed to send task: {}", e)
FailedToSendTask == << "Failed", "to", "send", "task:", "e" >>
\* "Stack trace not yet implemented"
StackTraceMessage == << "Stack", "trace", "not", "yet", "implemented" >>

\* format!("Unknown command: {}", command)
UnknownCommandMessage(command) == << "Unknown", "command:", command >>

\* str::contains on the words of a message
Contains(message, phrase) ==
    \E i \in 1..(Len(message) - Len(phrase) + 1) :
        \A k \in 1..Len(phrase) : message[i + k - 1] = phrase[k]

\* DapServer::create_response (the seq it takes is that of next_seq)
CreateResponse(request_seq, command, success, message, body) ==
    [type |-> "response", seq |-> seq, request_seq |-> request_seq,
     success |-> success, command |-> command, message |-> message,
     body |-> body]

\* DapServer::next_seq
next_seq == seq' = seq + 1

\* the client sends a request and the loop passes it to handle_request
AcceptWith(cmd, rs, args) ==
    /\ t1 = "idle"
    /\ nreq < MaxReq
    /\ nreq' = nreq + 1
    /\ request' = [seq |-> rs, command |-> cmd, arguments |-> args]

\* a request whose arguments play no part in what follows
Accept(cmd, rs) == AcceptWith(cmd, rs, NoArguments)

\* handle_request returns vec![create_response(..)]
Return(req, success, message, body) ==
    /\ responses' =
         << CreateResponse(req.seq, req.command, success, message, body) >>
    /\ next_seq
    /\ t1' = "send"

\* serde_json::from_value fails: handle_request's Err arm
DecodeFailure ==
    \E cmd \in DecodedCommands, rs \in ReqSeqs :
        /\ AcceptWith(cmd, rs, Undecodable)
        /\ Return(request', FALSE, InvalidArguments, 0)
        /\ UNCHANGED << frameVars, writerVars, mutexVars >>
        /\ UNCHANGED << debuggerVars, bpVars, sessionVars, seq_counter, chanVars,
                        workerVars, fwd, handled, outbound >>

\* handlers that touch neither the session state nor the worker, and the two
\* arms of handle_request that return at once
FixedMessage(cmd) ==
    CASE cmd = "stackTrace" -> StackTraceMessage
      [] cmd = "unknownCommand" -> UnknownCommandMessage(cmd)
      [] OTHER -> NoMessage

FixedOutcome(cmd) == cmd \in {"attach", "configurationDone", "variables", "threads",
                              "disconnect"}

ReqFixed ==
    \E cmd \in {"attach", "configurationDone", "variables", "threads",
                "disconnect", "stackTrace", "unknownCommand"}, rs \in ReqSeqs :
        /\ Accept(cmd, rs)
        /\ Return(request', FixedOutcome(cmd), FixedMessage(cmd), 0)
        /\ UNCHANGED << frameVars, writerVars, mutexVars >>
        /\ UNCHANGED << debuggerVars, bpVars, sessionVars, seq_counter, chanVars,
                        workerVars, fwd, handled, outbound >>

\* DapServer::handle_initialize, DebugSession::handle_initialize
ReqInitialize ==
    \E rs \in ReqSeqs :
        /\ Accept("initialize", rs)
        /\ initialized' = TRUE
        /\ Return(request', TRUE, NoMessage, "Capabilities")
        /\ UNCHANGED << frameVars, writerVars, mutexVars >>
        /\ UNCHANGED << debuggerVars, bpVars, eval_context, program_path, running,
                        stopped_reason, variable_references,
                        next_variable_reference, seq_counter, chanVars,
                        workerVars, fwd, handled, outbound >>

\* DebugSession::handle_launch: DebugEvalContext::new spawns the worker, then
\* the event forwarder is spawned
ReqLaunch ==
    \E rs \in ReqSeqs, program \in BOOLEAN :
        /\ Accept("launch", rs)
        /\ eval_context = "none"
        /\ program_path' = program
        /\ eval_context' = "some"
        /\ running' = FALSE
        /\ w' = "start"
        /\ fwd' = "run"
        /\ t1' = "launch_exec"
        /\ UNCHANGED << frameVars, writerVars, mutexVars >>
        /\ UNCHANGED << debuggerVars, bpVars, initialized, stopped_reason,
                        variable_references, next_variable_reference, seq,
                        seq_counter, chanVars, responses, hook, instrLeft, pauseNo,
                        handled, outbound >>

\* DebugSession::handle_launch: execute_async(program), which fails when the
\* worker has already dropped the receiver
LaunchExecute ==
    /\ t1 = "launch_exec"
    /\ IF program_path /\ w # "exited"
       THEN task_chan' = Append(task_chan, "ExecuteNonBlocking")
       ELSE UNCHANGED task_chan
    /\ IF program_path /\ w = "exited"
       THEN Return(request, FALSE, FailedToStart, 0)
       ELSE Return(request, TRUE, NoMessage, 0)
    /\ UNCHANGED << frameVars, writerVars, mutexVars >>
    /\ UNCHANGED << debuggerVars, bpVars, sessionVars, seq_counter, event_chan,
                    reply, request, workerVars, fwd, handled, nreq, outbound >>

\* DebugSession::handle_set_breakpoints: `.or_insert(ScriptId(0))`
ScriptOf(path) == 0

\* source_to_script.entry(source_path).or_insert(ScriptId(0)): the map after
\* the call, as a set of << path, script >> pairs
EntryOrInsert(map, path) ==
    IF \E e \in map : e[1] = path
    THEN map
    ELSE map \cup { << path, ScriptOf(path) >> }

\* the script id the entry holds
ScriptIdOf(map, path) == (CHOOSE e \in map : e[1] = path)[2]

\* Debugger::set_breakpoint(script, line): the breakpoint table is keyed by
\* script and line, the new breakpoint takes the next internal id
set_breakpoint(bps, id, script, line) ==
    { b \in bps : ~(b.script = script /\ b.line = line) }
        \cup { [id |-> id, script |-> script, line |-> line] }

\* one round of the loop that forgets `self.next_breakpoint_id += 1`
PushBreakpointSameId(st, script, line) ==
    [bps |-> set_breakpoint(st.bps, st.next_boa, script, line),
     next_boa |-> st.next_boa + 1,
     mapping |-> st.mapping \cup { << st.next_id, st.next_boa >> },
     next_id |-> st.next_id,
     body |-> Append(st.body, [id |-> st.next_id, verified |-> TRUE,
                               line |-> line])]

\* one round of `for bp in source_breakpoints`
PushBreakpoint(st, script, line) ==
    [bps |-> set_breakpoint(st.bps, st.next_boa, script, line),
     next_boa |-> st.next_boa + 1,
     mapping |-> st.mapping \cup { << st.next_id, st.next_boa >> },
     next_id |-> st.next_id + 1,
     body |-> Append(st.body, [id |-> st.next_id, verified |-> TRUE,
                               line |-> line])]

RECURSIVE SetBreakpointsLoop(_, _, _)
SetBreakpointsLoop(st, script, lines) ==
    IF lines = << >>
    THEN st
    ELSE SetBreakpointsLoop(PushBreakpoint(st, script, Head(lines)), script,
                            Tail(lines))

\* the `breakpoints` arrays a request may carry (None counts as empty)
BreakpointLists == UNION { [1..n -> Lines] : n \in 0..MaxBps }

ReqSetBreakpoints ==
    \E rs \in ReqSeqs, path \in Paths, lines \in BreakpointLists :
        /\ AcceptWith("setBreakpoints", rs, [decoded |-> TRUE, path |-> path, lines |-> lines])
        /\ source_to_script' = EntryOrInsert(source_to_script, path)
        /\ LET st == SetBreakpointsLoop(
                         [bps |-> breakpoints, next_boa |-> next_boa_bp,
                          mapping |-> breakpoint_mapping,
                          next_id |-> next_breakpoint_id, body |-> << >>],
                         ScriptIdOf(source_to_script', path), lines)
           IN /\ breakpoints' = st.bps
              /\ next_boa_bp' = st.next_boa
              /\ breakpoint_mapping' = st.mapping
              /\ next_breakpoint_id' = st.next_id
              /\ Return(request', TRUE, NoMessage, st.body)
        /\ UNCHANGED << frameVars, writerVars, mutexVars >>
        /\ UNCHANGED << paused, shutting_down, step_mode, sessionVars, seq_counter,
                        chanVars, workerVars, fwd, handled, outbound >>

\* DebugSession::resume, up to the notify: debugger.resume() under the mutex,
\* running = true, stopped_reason = None
ResumeLocked ==
    /\ resume
    /\ running' = TRUE
    /\ stopped_reason' = "None"

\* DebugSession::handle_continue
ReqContinue ==
    \E rs \in ReqSeqs :
        /\ Accept("continue", rs)
        /\ ResumeLocked
        /\ t1' = "res_notify"
        /\ UNCHANGED << frameVars, writerVars, mutexVars >>
        /\ UNCHANGED << shutting_down, step_mode, bpVars, eval_context,
                        program_path, initialized, variable_references,
                        next_variable_reference, seq, seq_counter, chanVars,
                        responses, workerVars, fwd, handled, outbound >>

\* DebugSession::resume: self.condvar.notify_all(); handle_continue returns
ResumeNotify ==
    /\ t1 = "res_notify"
    /\ w' = NotifyAll(w)
    /\ Return(request, TRUE, NoMessage, "allThreadsContinued")
    /\ UNCHANGED << frameVars, writerVars, mutexVars >>
    /\ UNCHANGED << debuggerVars, bpVars, sessionVars, seq_counter, chanVars,
                    request, hook, instrLeft, pauseNo, fwd, handled, nreq, outbound >>

\* DebugSession::handle_next / handle_step_in / handle_step_out; the server
\* passes frame depth 0
StepRequest(cmd) ==
    /\ CASE cmd = "next" -> step_over(0)
         [] cmd = "stepIn" -> step_in
         [] OTHER -> step_out(0)
    /\ running' = TRUE
    /\ stopped_reason' = "None"
    /\ UNCHANGED << paused, w >>

ReqStep ==
    \E cmd \in {"next", "stepIn", "stepOut"}, rs \in ReqSeqs :
        /\ Accept(cmd, rs)
        /\ StepRequest(cmd)
        /\ Return(request', TRUE, NoMessage, 0)
        /\ UNCHANGED << frameVars, writerVars, mutexVars >>
        /\ UNCHANGED << shutting_down, bpVars, eval_context, program_path,
                        initialized, variable_references,
                        next_variable_reference, seq_counter, chanVars, hook,
                        instrLeft, pauseNo, fwd, handled, outbound >>

\* a counter that is read but not advanced
ReuseReference(n) == n

\* handle_scopes: `self.next_variable_reference += 1`
AllocReference(n) == n + 1

\* handle_scopes, the `scopes` vector: Local first, Global second
ScopesBody(local_ref, global_ref) ==
    << [name |-> "Local", variables_reference |-> local_ref],
       [name |-> "Global", variables_reference |-> global_ref] >>

\* DebugSession::handle_scopes
ReqScopes ==
    \E rs \in ReqSeqs :
        /\ Accept("scopes", rs)
        /\ LET local_ref == next_variable_reference
               global_ref == AllocReference(local_ref)
           IN /\ variable_references' =
                    variable_references \cup {local_ref, global_ref}
              /\ next_variable_reference' = AllocReference(global_ref)
              /\ Return(request', TRUE, NoMessage,
                        ScopesBody(local_ref, global_ref))
        /\ UNCHANGED << frameVars, writerVars, mutexVars >>
        /\ UNCHANGED << debuggerVars, bpVars, eval_context, program_path,
                        initialized, running, stopped_reason, seq_counter,
                        chanVars, workerVars, fwd, handled, outbound >>

\* DebugSession::pause
SessionPause ==
    /\ t1 = "idle"
    /\ nreq < MaxReq
    /\ nreq' = nreq + 1
    /\ pause
    /\ UNCHANGED << frameVars, writerVars, mutexVars >>
    /\ UNCHANGED << shutting_down, step_mode, bpVars, sessionVars, seq,
                    seq_counter, chanVars, t1, request, responses, workerVars,
                    fwd, handled, outbound >>

\* DebugEvalContext::evaluate / get_stack_trace: task_tx.send(task)
InspectSend(task) ==
    IF w = "exited"
    THEN /\ reply' = [state |-> "closed", pause |-> 0]
         /\ t1' = "insp_recv"
         /\ UNCHANGED task_chan
    ELSE /\ task_chan' = Append(task_chan, task)
         /\ t1' = "insp_check"
         /\ UNCHANGED reply

\* DebugSession::handle_evaluate
ReqEvaluate ==
    \E rs \in ReqSeqs :
        /\ Accept("evaluate", rs)
        /\ IF eval_context = "none"
           THEN Return(request', TRUE, NoMessage, 0) /\ UNCHANGED << task_chan, reply >>
           ELSE InspectSend("Evaluate") /\ UNCHANGED << seq, responses >>
        /\ UNCHANGED << frameVars, writerVars, mutexVars >>
        /\ UNCHANGED << debuggerVars, bpVars, sessionVars, seq_counter, event_chan,
                        workerVars, fwd, handled, outbound >>

\* DebugSession::handle_stack_trace, called on the session (the server's own
\* stackTrace handler never reaches it)
SessionStackTrace ==
    /\ t1 = "idle"
    /\ nreq < MaxReq
    /\ nreq' = nreq + 1
    /\ eval_context = "some"
    /\ request' = [seq |-> 0, command |-> "stackTrace", arguments |-> NoArguments]
    /\ InspectSend("GetStackTrace")
    /\ UNCHANGED << frameVars, writerVars, mutexVars >>
    /\ UNCHANGED << debuggerVars, bpVars, sessionVars, seq, seq_counter, event_chan,
                    responses, workerVars, fwd, handled, outbound >>

\* DebugSession::execute, DebugEvalContext::execute: task_tx.send(Execute),
\* then result_rx.recv(); the condvar is not notified
SessionExecute ==
    /\ t1 = "idle"
    /\ nreq < MaxReq
    /\ nreq' = nreq + 1
    /\ eval_context = "some"
    /\ request' = [seq |-> 0, command |-> "execute", arguments |-> NoArguments]
    /\ t1' = "insp_recv"
    /\ IF w = "exited"
       THEN reply' = [state |-> "closed", pause |-> 0] /\ UNCHANGED task_chan
       ELSE task_chan' = Append(task_chan, "Execute") /\ UNCHANGED reply
    /\ UNCHANGED << frameVars, writerVars, mutexVars >>
    /\ UNCHANGED << debuggerVars, bpVars, sessionVars, seq, seq_counter, event_chan,
                    responses, workerVars, fwd, handled, outbound >>

\* `if self.debugger.lock().unwrap().is_paused()`
InspectCheck ==
    /\ t1 = "insp_check"
    /\ t1' = IF is_paused THEN "insp_notify" ELSE "insp_recv"
    /\ UNCHANGED << frameVars, writerVars, mutexVars >>
    /\ UNCHANGED << debuggerVars, bpVars, sessionVars, seq, seq_counter, chanVars,
                    request, responses, workerVars, fwd, handled, nreq, outbound >>

\* `self.condvar.notify_all()`
InspectNotify ==
    /\ t1 = "insp_notify"
    /\ w' = NotifyAll(w)
    /\ t1' = "insp_recv"
    /\ UNCHANGED << frameVars, writerVars, mutexVars >>
    /\ UNCHANGED << debuggerVars, bpVars, sessionVars, seq, seq_counter, chanVars,
                    request, responses, hook, instrLeft, pauseNo, fwd, handled, nreq,
                    outbound >>

\* result_rx.recv() returns: the worker's reply, or Err when result_tx was
\* dropped; a call made on the session returns to its caller
InspectRecv ==
    /\ t1 = "insp_recv"
    /\ reply.state \notin {"none", "held"}
    /\ reply' = NoReply
    /\ IF request.seq = 0
       THEN t1' = "idle" /\ request' = NoReq /\ UNCHANGED << seq, responses >>
       ELSE Return(request, reply.state = "ok",
                   IF reply.state = "ok" THEN NoMessage ELSE FailedToSendTask,
                   reply.pause) /\ UNCHANGED request
    /\ UNCHANGED << frameVars, writerVars, mutexVars >>
    /\ UNCHANGED << debuggerVars, bpVars, sessionVars, seq_counter, task_chan,
                    event_chan, workerVars, fwd, handled, nreq, outbound >>

\* send_dap_message: what the client sees of a message, in writing order
Written(msg) ==
    [kind |-> msg.type,
     name |-> IF msg.type = "response" THEN msg.command ELSE msg.event,
     success |-> IF msg.type = "response" THEN msg.success ELSE TRUE,
     pause |-> IF msg.type = "response" /\ msg.command = "evaluate"
               THEN msg.body ELSE 0,
     seq |-> msg.seq]

\* DapServer::send_message: the stdout stream as its reader follows it, events
\* by name, responses by outcome and payload
send_message(msg) ==
    [kind |-> msg.type,
     name |-> IF msg.type = "response" THEN "response" ELSE msg.event,
     success |-> IF msg.type = "response" THEN msg.success ELSE TRUE,
     pause |-> IF msg.type = "response" /\ msg.command = "evaluate"
               THEN msg.body ELSE 0,
     seq |-> msg.seq]

SendResponses ==
    /\ t1 = "send"
    /\ outbound' = outbound \o
                      [i \in 1..Len(responses) |-> send_message(responses[i])]
    /\ responses' = << >>
    /\ request' = NoReq
    /\ t1' = "idle"
    /\ UNCHANGED << frameVars, writerVars, mutexVars >>
    /\ UNCHANGED << debuggerVars, bpVars, sessionVars, seq, seq_counter, chanVars,
                    workerVars, fwd, handled, nreq >>

(* ------------------- impl Drop for DebugEvalContext -------------------- *)
\* the session ends: debugger.shutdown() under the mutex (request notes
\* whether the worker was in the wait loop when the drop began)
DropShutdown ==
    /\ t1 = "idle"
    /\ eval_context = "some"
    /\ shutdown
    /\ t1' = "drop_notify"
    /\ request' = [seq |-> 0,
                   command |-> IF InWaitLoop THEN "dropWhileWaiting" ELSE "drop",
                   arguments |-> NoArguments]
    /\ UNCHANGED << frameVars, writerVars, mutexVars >>
    /\ UNCHANGED << paused, step_mode, bpVars, sessionVars, seq, seq_counter,
                    chanVars, responses, workerVars, fwd, handled, nreq, outbound >>

\* self.condvar.notify_all()
DropNotify ==
    /\ t1 = "drop_notify"
    /\ w' = NotifyAll(w)
    /\ t1' = "drop_event"
    /\ UNCHANGED << frameVars, writerVars, mutexVars >>
    /\ UNCHANGED << debuggerVars, bpVars, sessionVars, seq, seq_counter, chanVars,
                    request, responses, hook, instrLeft, pauseNo, fwd, handled, nreq,
                    outbound >>

\* self.event_tx.send(DebugEvent::Shutdown)
DropSendShutdown ==
    /\ t1 = "drop_event"
    /\ event_chan' = EventSend(ShutdownEvent)
    /\ t1' = "drop_term"
    /\ UNCHANGED << frameVars, writerVars, mutexVars >>
    /\ UNCHANGED << debuggerVars, bpVars, sessionVars, seq, seq_counter, task_chan,
                    reply, request, responses, workerVars, fwd, handled, nreq, outbound >>

\* self.task_tx.send(EvalTask::Terminate)
DropSendTerminate ==
    /\ t1 = "drop_term"
    /\ task_chan' = IF w = "exited" THEN task_chan
                    ELSE Append(task_chan, "Terminate")
    /\ t1' = "drop_join"
    /\ UNCHANGED << frameVars, writerVars, mutexVars >>
    /\ UNCHANGED << debuggerVars, bpVars, sessionVars, seq, seq_counter, event_chan,
                    reply, request, responses, workerVars, fwd, handled, nreq, outbound >>

\* handle.join() returns once the worker thread has exited
DropJoin ==
    /\ t1 = "drop_join"
    /\ w = "exited"
    /\ t1' = "dropped"
    /\ eval_context' = "dropped"
    /\ UNCHANGED << frameVars, writerVars, mutexVars >>
    /\ UNCHANGED << debuggerVars, bpVars, program_path, initialized, running,
                    stopped_reason, variable_references, next_variable_reference,
                    seq, seq_counter, chanVars, request, responses, workerVars,
                    fwd, handled, nreq, outbound >>

(* --------------------------- specification ----------------------------- *)
Worker ==
    \/ WorkerStartOk
    \/ WorkerStartFail
    \/ WorkerRecv
    \/ EvalReturn
    \/ EvalMatch
    \/ OnStep
    \/ ExecInstruction
    \/ OnDebuggerStatement
    \/ OnDebuggerStatementSend
    \/ WaitDrainTask
    \/ WaitDrainEmpty
    \/ WaitCheck

Client ==
    \/ DecodeFailure
    \/ ReqFixed
    \/ ReqInitialize
    \/ ReqLaunch
    \/ ReqSetBreakpoints
    \/ ReqContinue
    \/ ReqStep
    \/ ReqScopes
    \/ ReqEvaluate
    \/ SessionPause
    \/ SessionStackTrace
    \/ DropShutdown

RequestThread ==
    \/ LaunchExecute
    \/ ResumeNotify
    \/ InspectCheck
    \/ InspectNotify
    \/ InspectRecv
    \/ SendResponses
    \/ DropNotify
    \/ DropSendShutdown
    \/ DropSendTerminate
    \/ DropJoin

Next == Client \/ RequestThread \/ Worker \/ SpuriousWake \/ ForwarderRecv

Spec == Init /\ [][Next]_vars

\* the session driven through its own methods, execute() among them: launch,
\* pause, continue and the steps, evaluate, the stack trace, and its drop
SessionCalls ==
    \/ SessionExecute
    \/ ReqLaunch
    \/ ReqContinue
    \/ ReqStep
    \/ ReqEvaluate
    \/ SessionPause
    \/ SessionStackTrace
    \/ DropShutdown

NextExec == SessionCalls \/ RequestThread \/ Worker \/ SpuriousWake \/ ForwarderRecv

SpecExec == Init /\ [][NextExec]_vars

\* The three threads are OS threads: each keeps being scheduled while it has a
\* step to take.  Nothing obliges the client to send a request, and nothing
\* obliges Condvar::wait to wake without a notification.
FairSpec ==
    /\ Spec
    /\ WF_vars(Worker)
    /\ WF_vars(RequestThread)
    /\ WF_vars(ForwarderRecv)

FairSpecExec ==
    /\ SpecExec
    /\ WF_vars(Worker)
    /\ WF_vars(RequestThread)
    /\ WF_vars(ForwarderRecv)

(* ------------- the CLI's TCP request loop (handle_tcp_client) ----------- *)
\* DapServer::create_event (the seq it takes is that of next_seq)
CreateEvent(event) ==
    [type |-> "event", seq |-> seq, event |-> event, body |-> 0]

\* DapLogger::send_output: the event takes its seq from the logger's own
\* seq_counter
LoggerEvent ==
    [type |-> "event", seq |-> seq_counter, event |-> "output", body |-> 0]

\* handle_launch_request: the launch arguments fail to decode, the io::Error
\* leaves handle_tcp_client and the connection is closed
CliLaunchBadArguments ==
    \E rs \in ReqSeqs :
        /\ AcceptWith("launch", rs, Undecodable)
        /\ t1' = "closed"
        /\ UNCHANGED << frameVars, writerVars, mutexVars >>
        /\ UNCHANGED << debuggerVars, bpVars, sessionVars, seq, seq_counter,
                        chanVars, responses, workerVars, fwd, handled, outbound >>

\* handle_launch_request: dap_server.handle_request(request) has returned the
\* launch response, which is kept until the end
CliLaunchReturned ==
    /\ t1 = "send"
    /\ request.command = "launch"
    /\ t1' = IF program_path THEN "cli_eval" ELSE "cli_send"
    /\ UNCHANGED << frameVars, writerVars, mutexVars >>
    /\ UNCHANGED << debuggerVars, bpVars, sessionVars, seq, seq_counter, chanVars,
                    request, responses, workerVars, fwd, handled, nreq, outbound >>

\* context.eval on the request thread: a console.log of the script, sent at
\* once by DapLogger::send_output
CliLog ==
    /\ t1 = "cli_eval"
    /\ seq_counter < LoggerSeqStart + MaxLogs
    /\ outbound' = Append(outbound, Written(LoggerEvent))
    /\ seq_counter' = seq_counter + 1
    /\ UNCHANGED << frameVars, writerVars, mutexVars >>
    /\ UNCHANGED << debuggerVars, bpVars, sessionVars, seq, chanVars, t1, request,
                    responses, workerVars, fwd, handled, nreq >>

\* context.eval returned, or the file could not be read: an `output` event
\* made by create_event is written, except for an undefined result
CliEvalDone ==
    /\ t1 = "cli_eval"
    /\ \E output \in BOOLEAN :
          IF output
          THEN /\ outbound' = Append(outbound, Written(CreateEvent("output")))
               /\ next_seq
          ELSE UNCHANGED << outbound, seq >>
    /\ t1' = "cli_term"
    /\ UNCHANGED << frameVars, writerVars, mutexVars >>
    /\ UNCHANGED << debuggerVars, bpVars, sessionVars, seq_counter, chanVars,
                    request, responses, workerVars, fwd, handled, nreq >>

\* handle_launch_request: the `terminated` event
CliTerminated ==
    /\ t1 = "cli_term"
    /\ outbound' = Append(outbound, Written(CreateEvent("terminated")))
    /\ next_seq
    /\ t1' = "cli_send"
    /\ UNCHANGED << frameVars, writerVars, mutexVars >>
    /\ UNCHANGED << debuggerVars, bpVars, sessionVars, seq_counter, chanVars,
                    request, responses, workerVars, fwd, handled, nreq >>

\* handle_tcp_client writes what handle_launch_request returned
CliSendLaunch ==
    /\ t1 = "cli_send"
    /\ outbound' = outbound \o [i \in 1..Len(responses) |-> Written(responses[i])]
    /\ responses' = << >>
    /\ request' = NoReq
    /\ t1' = "idle"
    /\ UNCHANGED << frameVars, writerVars, mutexVars >>
    /\ UNCHANGED << debuggerVars, bpVars, sessionVars, seq, seq_counter, chanVars,
                    workerVars, fwd, handled, nreq >>

\* handle_tcp_client writes what dap_server.handle_request returned
CliSendOther ==
    /\ t1 = "send"
    /\ request.command # "launch"
    /\ outbound' = outbound \o [i \in 1..Len(responses) |-> Written(responses[i])]
    /\ responses' = << >>
    /\ request' = NoReq
    /\ t1' = "idle"
    /\ UNCHANGED << frameVars, writerVars, mutexVars >>
    /\ UNCHANGED << debuggerVars, bpVars, sessionVars, seq, seq_counter, chanVars,
                    workerVars, fwd, handled, nreq >>

\* a request other than launch fails to decode inside its handler
CliDecodeFailure ==
    \E cmd \in DecodedCommands \ {"launch"}, rs \in ReqSeqs :
        /\ AcceptWith(cmd, rs, Undecodable)
        /\ Return(request', FALSE, InvalidArguments, 0)
        /\ UNCHANGED << frameVars, writerVars, mutexVars >>
        /\ UNCHANGED << debuggerVars, bpVars, sessionVars, seq_counter, chanVars,
                        workerVars, fwd, handled, outbound >>

CliClient ==
    \/ CliDecodeFailure
    \/ CliLaunchBadArguments
    \/ ReqFixed
    \/ ReqInitialize
    \/ ReqLaunch
    \/ ReqSetBreakpoints
    \/ ReqContinue
    \/ ReqStep
    \/ ReqScopes
    \/ ReqEvaluate
    \/ DropShutdown

CliRequestThread ==
    \/ LaunchExecute
    \/ CliLaunchReturned
    \/ CliLog
    \/ CliEvalDone
    \/ CliTerminated
    \/ CliSendLaunch
    \/ CliSendOther
    \/ ResumeNotify
    \/ InspectCheck
    \/ InspectNotify
    \/ InspectRecv
    \/ DropNotify
    \/ DropSendShutdown
    \/ DropSendTerminate
    \/ DropJoin

NextCli == CliClient \/ CliRequestThread \/ Worker \/ SpuriousWake \/ ForwarderRecv

SpecCli == Init /\ [][NextCli]_vars


(* ------- the request loops' reader (DapServer::run, handle_tcp_client) --- *)
\* The input is a sequence of units of the byte stream: the header name with
\* its colon and blank, a number, a line end "\r\n", a byte of a body.
programVars == << paused, shutting_down, step_mode, breakpoints, next_boa_bp,
                  eval_context, program_path, source_to_script,
                  breakpoint_mapping, next_breakpoint_id, initialized, running,
                  stopped_reason, variable_references, next_variable_reference,
                  seq, seq_counter, task_chan, event_chan, reply, t1, request,
                  responses, w, hook, instrLeft, fwd, handled, pauseNo, nreq,
                  outbound >>

LineEnd == "\r\n"
ContentLengthPrefix == "Content-Length: "
OtherHeader == "Content-Type: x"
Digits == << "1", "2", "3" >>
RequestBodies == << "r1", "r2", "r3" >>

\* the JSON text of the k-th request, as clients send it: no line end inside
\* or behind it
BodyOf(k) == << "{", RequestBodies[k] >>

\* usize::from_str on the text behind the prefix: None is -1
ParseUsize(text) ==
    IF Len(text) = 1 /\ \E n \in 1..Len(Digits) : Digits[n] = text[1]
    THEN CHOOSE n \in 1..Len(Digits) : Digits[n] = text[1]
    ELSE -1

FrameKinds == {"plain", "missing", "unparsable", "extraBefore", "extraAfter"}

\* the k-th framed message as the client writes it
Frame(kind, k) ==
    LET length == << ContentLengthPrefix, Digits[Len(BodyOf(k))], LineEnd >>
        other == << OtherHeader, LineEnd >>
        blank == << LineEnd >>
    IN CASE kind = "plain" -> length \o blank \o BodyOf(k)
         [] kind = "missing" -> other \o blank \o BodyOf(k)
         [] kind = "unparsable" ->
                << ContentLengthPrefix, "x", LineEnd >> \o blank \o BodyOf(k)
         [] kind = "extraBefore" -> other \o length \o blank \o BodyOf(k)
         [] kind = "extraAfter" -> length \o other \o blank \o BodyOf(k)

RECURSIVE InputFrom(_, _)
InputFrom(kinds, k) ==
    IF k > Len(kinds)
    THEN << >>
    ELSE Frame(kinds[k], k) \o InputFrom(kinds, k + 1)

FrameLists == UNION { [1..n -> FrameKinds] : n \in 0..MaxFrames }

\* BufRead::read_line: up to and including the first line end, or all that is
\* left when there is none
LineLength(s) ==
    IF \E i \in 1..Len(s) : s[i] = LineEnd
    THEN CHOOSE i \in 1..Len(s) :
            s[i] = LineEnd /\ \A j \in 1..(i - 1) : s[j] # LineEnd
    ELSE Len(s)

read_line(s) ==
    [line |-> SubSeq(s, 1, LineLength(s)),
     rest |-> SubSeq(s, LineLength(s) + 1, Len(s))]

\* str::trim: the white space at both ends goes
RECURSIVE trim(_)
trim(line) ==
    IF line = << >> THEN line
    ELSE IF Head(line) = LineEnd THEN trim(Tail(line))
    ELSE IF line[Len(line)] = LineEnd THEN trim(SubSeq(line, 1, Len(line) - 1))
    ELSE line

\* header.trim().strip_prefix("Content-Length: ").and_then(|s| s.parse().ok())
ParseContentLength(header) ==
    LET text == trim(header)
    IN IF text # << >> /\ Head(text) = ContentLengthPrefix
       THEN ParseUsize(Tail(text))
       ELSE -1

\* serde_json::from_slice::<ProtocolMessage>(&buffer) yields a request
IsRequest(buffer) ==
    /\ Len(buffer) = 2
    /\ buffer[1] = "{"
    /\ \E k \in 1..Len(RequestBodies) : RequestBodies[k] = buffer[2]

InitFrame ==
    /\ InitSession
    /\ mode \in {"stdio", "tcp"}
    /\ frames \in FrameLists
    /\ stream = InputFrom(frames, 1)
    /\ lp = "header"
    /\ content_length = 0
    /\ received = << >>
    /\ WriterUnused

\* reader.read_line(&mut header) and the parse of the Content-Length header
ReadHeader ==
    /\ lp = "header"
    /\ LET r == read_line(stream)
           n == ParseContentLength(r.line)
       IN /\ stream' = r.rest
          /\ IF mode = "tcp" /\ r.line = << >>
             THEN lp' = "ended" /\ UNCHANGED content_length
             ELSE IF trim(r.line) = << >>
             THEN lp' = "header" /\ UNCHANGED content_length
             ELSE IF n >= 0
             THEN lp' = "empty" /\ content_length' = n
             ELSE /\ lp' = IF mode = "tcp" THEN "header" ELSE "failed"
                  /\ UNCHANGED content_length
    /\ UNCHANGED << mutexVars, writerVars, programVars, mode, frames, received >>

\* reader.read_line(&mut empty)
ReadEmpty ==
    /\ lp = "empty"
    /\ stream' = read_line(stream).rest
    /\ lp' = "body"
    /\ UNCHANGED << mutexVars, writerVars, programVars, mode, frames, content_length, received >>

\* reader.read_exact(&mut buffer)?, the decoding of the buffer and the
\* dispatch of a request
ReadBody ==
    /\ lp = "body"
    /\ IF Len(stream) < content_length
       THEN /\ stream' = << >>
            /\ lp' = "failed"
            /\ UNCHANGED received
       ELSE LET buffer == SubSeq(stream, 1, content_length)
            IN /\ stream' = SubSeq(stream, content_length + 1, Len(stream))
               /\ IF IsRequest(buffer)
                  THEN received' = Append(received, buffer) /\ lp' = "header"
                  ELSE /\ UNCHANGED received
                       /\ lp' = IF mode = "tcp" THEN "header" ELSE "failed"
    /\ UNCHANGED << mutexVars, writerVars, programVars, mode, frames, content_length >>

NextFrame == ReadHeader \/ ReadEmpty \/ ReadBody

SpecFrame == InitFrame /\ [][NextFrame]_vars

\* the loop's thread keeps running
FairSpecFrame == SpecFrame /\ WF_vars(NextFrame)

(* ------------- TCP mode: the stream and the mutex around it ------------ *)
MaxMessages == 3

\* the threads that write to the stream: the request thread, on which the
\* console logger runs too, and the event forwarder
Writers == {"T1", "T3"}

\* what a message of the request thread is: a response of the response
\* loop, an event of handle_launch_request, an output event of the logger
T1Sources == {"response", "event", "logger"}
MessageLists == UNION {[1..n -> T1Sources] : n \in 1..2}

SourceOf(th) == IF th = "T1" THEN Head(pending) ELSE "forwarder"

InitWriter ==
    /\ InitSession
    /\ mode = "tcp"
    /\ frames = << >>
    /\ stream = << >>
    /\ lp = "none"
    /\ content_length = 0
    /\ received = << >>
    /\ MutexUntraced
    /\ writer = "none"
    /\ wire = << >>
    /\ wpos = [th \in Writers |-> IF th = "T1" THEN "read" ELSE "recv"]
    /\ pending = << >>
    /\ nmsg = 0

\* reader.read_line(&mut header) returns a request; handling it leaves the
\* request thread with messages to write
AwaitRequest ==
    /\ wpos["T1"] = "read"
    /\ \E msgs \in MessageLists :
         /\ nmsg + Len(msgs) <= MaxMessages
         /\ pending' = msgs
         /\ nmsg' = nmsg + Len(msgs)
    /\ wpos' = [wpos EXCEPT !["T1"] = "lock"]
    /\ UNCHANGED << writer, wire, programVars, frameVars,
                    mutexVars >>

\* the forwarder received an event that event_handler writes to the client
ForwarderEvent ==
    /\ wpos["T3"] = "recv"
    /\ nmsg < MaxMessages
    /\ nmsg' = nmsg + 1
    /\ wpos' = [wpos EXCEPT !["T3"] = "lock"]
    /\ UNCHANGED << writer, wire, pending, programVars, frameVars,
                    mutexVars >>

\* a thread that goes on to write without taking the lock
LockWriterSkipped(th) ==
    /\ wpos[th] = "lock"
    /\ wpos' = [wpos EXCEPT ![th] = "header"]
    /\ UNCHANGED << writer, wire, pending, nmsg, programVars, frameVars,
                    mutexVars >>

\* writer.lock().unwrap()
LockWriter(th) ==
    /\ wpos[th] = "lock"
    /\ writer = "none"
    /\ writer' = th
    /\ wpos' = [wpos EXCEPT ![th] = "header"]
    /\ UNCHANGED << wire, pending, nmsg, programVars, frameVars,
                    mutexVars >>

\* one write to the stream
WriteChunk(th, part, next) ==
    /\ wpos[th] = part
    /\ wire' = Append(wire, [by |-> SourceOf(th), part |-> part])
    /\ wpos' = [wpos EXCEPT ![th] = next]
    /\ UNCHANGED << writer, pending, nmsg, programVars, frameVars,
                    mutexVars >>

\* write!(writer, "Content-Length: {}\r\n\r\n{}", json.len(), json): the
\* header, then the body
WriteHeader(th) == WriteChunk(th, "header", "body")
WriteBody(th) == WriteChunk(th, "body", "flush")

\* writer.flush()
Flush(th) == WriteChunk(th, "flush", "unlock")

\* the guard goes out of scope
UnlockWriter(th) ==
    /\ wpos[th] = "unlock"
    /\ writer' = "none"
    /\ IF th = "T1"
       THEN /\ pending' = Tail(pending)
            /\ wpos' = [wpos EXCEPT ![th] =
                           IF Tail(pending) = << >> THEN "read" ELSE "lock"]
       ELSE /\ UNCHANGED pending
            /\ wpos' = [wpos EXCEPT ![th] = "recv"]
    /\ UNCHANGED << wire, nmsg, programVars, frameVars,
                    mutexVars >>

SendMessage(th) ==
    LockWriter(th) \/ WriteHeader(th) \/ WriteBody(th) \/ Flush(th) \/ UnlockWriter(th)

NextWriter == AwaitRequest \/ ForwarderEvent \/ \E th \in Writers : SendMessage(th)

SpecWriter == InitWriter /\ [][NextWriter]_vars

(* ------------- the event forwarder's loop, event by event --------------- *)
MaxEvents == 3

\* the events the forwarder's match has an arm for
EventTypes == {"Stopped", "Terminated", "Shutdown"}

\* std::thread::spawn of the forwarder
ForwarderSpawn ==
    /\ fwd = "none"
    /\ fwd' = "run"
    /\ UNCHANGED << frameVars, writerVars, mutexVars >>
    /\ UNCHANGED << debuggerVars, bpVars, sessionVars, seq, seq_counter, chanVars,
                    t1, request, responses, workerVars, handled, nreq, outbound >>

\* an event is sent on the event channel
EmitEvent ==
    /\ Len(handled) + Len(event_chan) < MaxEvents
    /\ \E type \in EventTypes :
         event_chan' = EventSend([type |-> type, reason |-> "", pause |-> 0])
    /\ UNCHANGED << frameVars, writerVars, mutexVars >>
    /\ UNCHANGED << debuggerVars, bpVars, sessionVars, seq, seq_counter, task_chan,
                    reply, t1, request, responses, workerVars, fwd, handled, nreq,
                    outbound >>

NextForwarder == ForwarderSpawn \/ EmitEvent \/ ForwarderRecv

SpecForwarder == Init /\ [][NextForwarder]_vars

(* ------- the lock of `debugger`, acquisition by acquisition ------------- *)
\* what the steps below leave alone
mutexRest == << step_mode, breakpoints, next_boa_bp, eval_context, program_path,
             source_to_script, breakpoint_mapping, next_breakpoint_id,
             initialized, running, stopped_reason, variable_references,
             next_variable_reference, seq, seq_counter, t1, request, responses, w,
             fwd, handled, outbound, mode, frames, stream, lp, content_length,
             received, writer, wire, wpos, pending, nmsg >>

\* a thread moves on
Goto(th, to) == at' = [at EXCEPT ![th] = to]

\* self.debugger.lock().unwrap()
Lock(th) == mutex = "none" /\ mutex' = th

\* the guard is dropped
Unlock(th) == mutex = th /\ mutex' = "none"

\* a Condvar::wait that keeps the mutex while the thread sleeps
CondvarWaitHolding(th) == mutex = th /\ mutex' = mutex

\* self.condvar.wait(debugger_guard): the mutex is released as the thread
\* goes to sleep
CondvarWait(th) == mutex = th /\ mutex' = "none"

\* Condvar::notify_all by thread th, which moves on: the worker, if asleep,
\* goes on to take the mutex again
WakeAnd(th, to) ==
    at' = [at EXCEPT ![th] = to,
                     !["T2"] = IF at["T2"] = "wait" THEN "wake_lock" ELSE at["T2"]]

InitMutex ==
    /\ InitSession
    /\ mode = "none"
    /\ frames = << >>
    /\ stream = << >>
    /\ lp = "none"
    /\ content_length = 0
    /\ received = << >>
    /\ writer = "none"
    /\ wire = << >>
    /\ wpos = [th \in {"T1", "T3"} |-> "off"]
    /\ pending = << >>
    /\ nmsg = 0
    /\ mutex = "none"
    /\ at = [th \in {"T1", "T2"} |-> IF th = "T1" THEN "idle" ELSE "start"]

\* DebugEvalContext::new: the worker thread starts and the program is
\* submitted; the thread reaches its task loop
MxStart ==
    /\ at["T2"] = "start"
    /\ task_chan' = Append(task_chan, "ExecuteNonBlocking")
    /\ Goto("T2", "recv")
    /\ UNCHANGED << mutexRest, mutex, paused, shutting_down, event_chan, reply, instrLeft, pauseNo,
                                  nreq, hook >>

\* the task loop: task_rx.lock().unwrap().recv()
MxRecv ==
    /\ at["T2"] = "recv"
    /\ task_chan # << >>
    /\ LET task == Head(task_chan) IN
       CASE task = "ExecuteNonBlocking" ->
              /\ \E n \in 0..MaxInstr : instrLeft' = n
              /\ task_chan' = Tail(task_chan)
              /\ Goto("T2", "eval")
              /\ UNCHANGED reply
         [] task = "Terminate" ->
              /\ ReceiverDropped
              /\ Goto("T2", "exited")
              /\ UNCHANGED instrLeft
         [] OTHER ->
              /\ reply' = ProcessInspectionTask(0)
              /\ task_chan' = Tail(task_chan)
              /\ UNCHANGED << instrLeft, at >>
    /\ UNCHANGED << mutexRest, mutex, paused, shutting_down, event_chan, pauseNo, nreq, hook >>

\* context.eval returned
MxEvalDone ==
    /\ at["T2"] = "eval"
    /\ instrLeft = 0
    /\ Goto("T2", "recv")
    /\ UNCHANGED << mutexRest, mutex, paused, shutting_down, task_chan, event_chan, reply,
                                  instrLeft, pauseNo, nreq, hook >>

\* on_step: self.debugger.lock()
MxStepLock ==
    /\ at["T2"] = "eval"
    /\ instrLeft > 0
    /\ Lock("T2")
    /\ Goto("T2", "step_test")
    /\ UNCHANGED << mutexRest, paused, shutting_down, task_chan, event_chan, reply, instrLeft,
                                  pauseNo, nreq, hook >>

\* on_step: is_paused() read, the temporary guard dropped
MxStepTest ==
    /\ at["T2"] = "step_test"
    /\ Unlock("T2")
    /\ Goto("T2", IF is_paused THEN "step_send" ELSE "exec")
    /\ UNCHANGED << mutexRest, paused, shutting_down, task_chan, event_chan, reply, instrLeft,
                                  pauseNo, nreq, hook >>

\* on_step: event_tx.send(Stopped{"step"}), then wait_for_resume
MxStepSend ==
    /\ at["T2"] = "step_send"
    /\ event_chan' = EventSend(StoppedEvent("step"))
    /\ pauseNo' = pauseNo + 1
    /\ hook' = "step"
    /\ Goto("T2", "drain")
    /\ UNCHANGED << mutexRest, mutex, paused, shutting_down, task_chan, reply, instrLeft, nreq >>

\* an instruction other than `debugger;`
MxExec ==
    /\ at["T2"] = "exec"
    /\ instrLeft' = instrLeft - 1
    /\ Goto("T2", "eval")
    /\ UNCHANGED << mutexRest, mutex, paused, shutting_down, task_chan, event_chan, reply, pauseNo,
                                  nreq, hook >>

\* on_debugger_statement: self.debugger.lock()
MxDbgLock ==
    /\ at["T2"] = "exec"
    /\ Lock("T2")
    /\ Goto("T2", "dbg_pause")
    /\ UNCHANGED << mutexRest, paused, shutting_down, task_chan, event_chan, reply, instrLeft,
                                  pauseNo, nreq, hook >>

\* on_debugger_statement: pause(), the temporary guard dropped
MxDbgPause ==
    /\ at["T2"] = "dbg_pause"
    /\ pause
    /\ Unlock("T2")
    /\ hook' = "dbg"
    /\ Goto("T2", "dbg_send")
    /\ UNCHANGED << mutexRest, shutting_down, task_chan, event_chan, reply, instrLeft, pauseNo,
                                  nreq >>

\* on_debugger_statement: event_tx.send(Stopped{"pause"}), then
\* wait_for_resume
MxDbgSend ==
    /\ at["T2"] = "dbg_send"
    /\ event_chan' = EventSend(StoppedEvent("pause"))
    /\ pauseNo' = pauseNo + 1
    /\ Goto("T2", "drain")
    /\ UNCHANGED << mutexRest, mutex, paused, shutting_down, task_chan, reply, instrLeft, nreq,
                                  hook >>

\* wait_for_resume, drain loop: task_rx.lock().unwrap().try_recv() returned
\* Ok(task)
MxDrainTask ==
    /\ at["T2"] = "drain"
    /\ task_chan # << >>
    /\ task_chan' = Tail(task_chan)
    /\ LET task == Head(task_chan) IN
       CASE IsExecution(task) ->
              /\ reply' = IF task = "Execute"
                          THEN [state |-> "closed", pause |-> 0] ELSE reply
              /\ UNCHANGED << hook, instrLeft, at >>
         [] task = "Terminate" ->
              /\ hook' = "none"
              /\ instrLeft' = 0
              /\ Goto("T2", "eval")
              /\ UNCHANGED reply
         [] OTHER ->
              /\ reply' = ProcessInspectionTask(pauseNo)
              /\ UNCHANGED << hook, instrLeft, at >>
    /\ UNCHANGED << mutexRest, mutex, paused, shutting_down, event_chan, pauseNo, nreq >>

\* wait_for_resume, drain loop: try_recv returned Err(Empty)
MxDrainEmpty ==
    /\ at["T2"] = "drain"
    /\ task_chan = << >>
    /\ Goto("T2", "wait_lock")
    /\ UNCHANGED << mutexRest, mutex, paused, shutting_down, task_chan, event_chan, reply,
                                  instrLeft, pauseNo, nreq, hook >>

\* wait_for_resume: let mut debugger_guard = self.debugger.lock().unwrap()
MxWaitLock ==
    /\ at["T2"] = "wait_lock"
    /\ Lock("T2")
    /\ Goto("T2", "check")
    /\ UNCHANGED << mutexRest, paused, shutting_down, task_chan, event_chan, reply, instrLeft,
                                  pauseNo, nreq, hook >>

\* wait_for_resume, under the guard: return Ok or return Err; the guard is
\* dropped on the way out
MxCheckReturn ==
    /\ at["T2"] = "check"
    /\ WaitCheckOutcome(is_paused, is_shutting_down) # "wait"
    /\ Unlock("T2")
    /\ hook' = "none"
    /\ IF WaitCheckOutcome(is_paused, is_shutting_down) = "ok"
       THEN IF hook = "step"
            THEN Goto("T2", "exec") /\ UNCHANGED instrLeft
            ELSE Goto("T2", "eval") /\ instrLeft' = instrLeft - 1
       ELSE Goto("T2", "eval") /\ instrLeft' = 0
    /\ UNCHANGED << mutexRest, paused, shutting_down, task_chan, event_chan, reply, pauseNo, nreq >>

\* wait_for_resume, under the guard: still paused, condvar.wait
MxCheckWait ==
    /\ at["T2"] = "check"
    /\ WaitCheckOutcome(is_paused, is_shutting_down) = "wait"
    /\ CondvarWait("T2")
    /\ Goto("T2", "wait")
    /\ UNCHANGED << mutexRest, paused, shutting_down, task_chan, event_chan, reply, instrLeft,
                                  pauseNo, nreq, hook >>

\* Condvar::wait may return without a notification
MxSpuriousWake ==
    /\ at["T2"] = "wait"
    /\ Goto("T2", "wake_lock")
    /\ UNCHANGED << mutexRest, mutex, paused, shutting_down, task_chan, event_chan, reply,
                                  instrLeft, pauseNo, nreq, hook >>

\* Condvar::wait takes the mutex again before it returns
MxWakeLock ==
    /\ at["T2"] = "wake_lock"
    /\ Lock("T2")
    /\ Goto("T2", "woken")
    /\ UNCHANGED << mutexRest, paused, shutting_down, task_chan, event_chan, reply, instrLeft,
                                  pauseNo, nreq, hook >>

\* wait_for_resume: debugger_guard dropped at the end of the iteration
MxIterationEnd ==
    /\ at["T2"] = "woken"
    /\ Unlock("T2")
    /\ Goto("T2", "drain")
    /\ UNCHANGED << mutexRest, paused, shutting_down, task_chan, event_chan, reply, instrLeft,
                                  pauseNo, nreq, hook >>

\* DebugSession::pause: self.debugger.lock()
MxPauseLock ==
    /\ at["T1"] = "idle"
    /\ nreq < MaxReq
    /\ nreq' = nreq + 1
    /\ Lock("T1")
    /\ Goto("T1", "pause_set")
    /\ UNCHANGED << mutexRest, paused, shutting_down, task_chan, event_chan, reply, instrLeft,
                                  pauseNo, hook >>

\* DebugSession::pause: pause(), guard dropped
MxPauseSet ==
    /\ at["T1"] = "pause_set"
    /\ pause
    /\ Unlock("T1")
    /\ Goto("T1", "idle")
    /\ UNCHANGED << mutexRest, shutting_down, task_chan, event_chan, reply, instrLeft, pauseNo,
                                  nreq, hook >>

\* DebugSession::resume: self.debugger.lock()
MxResumeLock ==
    /\ at["T1"] = "idle"
    /\ nreq < MaxReq
    /\ nreq' = nreq + 1
    /\ Lock("T1")
    /\ Goto("T1", "res_set")
    /\ UNCHANGED << mutexRest, paused, shutting_down, task_chan, event_chan, reply, instrLeft,
                                  pauseNo, hook >>

\* DebugSession::resume: resume(), guard dropped
MxResumeSet ==
    /\ at["T1"] = "res_set"
    /\ resume
    /\ Unlock("T1")
    /\ Goto("T1", "res_notify")
    /\ UNCHANGED << mutexRest, shutting_down, task_chan, event_chan, reply, instrLeft, pauseNo,
                                  nreq, hook >>

\* DebugSession::resume: self.condvar.notify_all()
MxResumeNotify ==
    /\ at["T1"] = "res_notify"
    /\ WakeAnd("T1", "idle")
    /\ UNCHANGED << mutexRest, mutex, paused, shutting_down, task_chan, event_chan, reply,
                                  instrLeft, pauseNo, nreq, hook >>

\* DebugEvalContext::get_stack_trace / evaluate: task_tx.send(task)
MxInspectSend ==
    /\ at["T1"] = "idle"
    /\ nreq < MaxReq
    /\ nreq' = nreq + 1
    /\ IF at["T2"] = "exited"
       THEN /\ reply' = [state |-> "closed", pause |-> 0]
            /\ Goto("T1", "insp_recv")
            /\ UNCHANGED task_chan
       ELSE /\ \E task \in {"GetStackTrace", "Evaluate"} :
                 task_chan' = Append(task_chan, task)
            /\ Goto("T1", "insp_lock")
            /\ UNCHANGED reply
    /\ UNCHANGED << mutexRest, mutex, paused, shutting_down, event_chan, instrLeft, pauseNo, hook >>

\* get_stack_trace / evaluate: self.debugger.lock()
MxInspectLock ==
    /\ at["T1"] = "insp_lock"
    /\ Lock("T1")
    /\ Goto("T1", "insp_test")
    /\ UNCHANGED << mutexRest, paused, shutting_down, task_chan, event_chan, reply, instrLeft,
                                  pauseNo, nreq, hook >>

\* get_stack_trace / evaluate: is_paused() read, the temporary guard dropped
MxInspectTest ==
    /\ at["T1"] = "insp_test"
    /\ Unlock("T1")
    /\ Goto("T1", IF is_paused THEN "insp_notify" ELSE "insp_recv")
    /\ UNCHANGED << mutexRest, paused, shutting_down, task_chan, event_chan, reply, instrLeft,
                                  pauseNo, nreq, hook >>

\* get_stack_trace / evaluate: self.condvar.notify_all()
MxInspectNotify ==
    /\ at["T1"] = "insp_notify"
    /\ WakeAnd("T1", "insp_recv")
    /\ UNCHANGED << mutexRest, mutex, paused, shutting_down, task_chan, event_chan, reply,
                                  instrLeft, pauseNo, nreq, hook >>

\* get_stack_trace / evaluate: result_rx.recv() returns
MxInspectRecv ==
    /\ at["T1"] = "insp_recv"
    /\ reply.state # "none"
    /\ reply' = NoReply
    /\ Goto("T1", "idle")
    /\ UNCHANGED << mutexRest, mutex, paused, shutting_down, task_chan, event_chan, instrLeft,
                                  pauseNo, nreq, hook >>

\* impl Drop for DebugEvalContext: self.debugger.lock()
MxDropLock ==
    /\ at["T1"] = "idle"
    /\ Lock("T1")
    /\ Goto("T1", "drop_set")
    /\ UNCHANGED << mutexRest, paused, shutting_down, task_chan, event_chan, reply, instrLeft,
                                  pauseNo, nreq, hook >>

\* Drop: debugger.shutdown(), the block with the guard ends
MxDropSet ==
    /\ at["T1"] = "drop_set"
    /\ shutdown
    /\ Unlock("T1")
    /\ Goto("T1", "drop_notify")
    /\ UNCHANGED << mutexRest, paused, task_chan, event_chan, reply, instrLeft, pauseNo, nreq, hook >>

\* Drop: self.condvar.notify_all()
MxDropNotify ==
    /\ at["T1"] = "drop_notify"
    /\ WakeAnd("T1", "drop_event")
    /\ UNCHANGED << mutexRest, mutex, paused, shutting_down, task_chan, event_chan, reply,
                                  instrLeft, pauseNo, nreq, hook >>

\* Drop: self.event_tx.send(DebugEvent::Shutdown)
MxDropEvent ==
    /\ at["T1"] = "drop_event"
    /\ event_chan' = EventSend(ShutdownEvent)
    /\ Goto("T1", "drop_term")
    /\ UNCHANGED << mutexRest, mutex, paused, shutting_down, task_chan, reply, instrLeft, pauseNo,
                                  nreq, hook >>

\* Drop: self.task_tx.send(EvalTask::Terminate)
MxDropTerm ==
    /\ at["T1"] = "drop_term"
    /\ task_chan' = IF at["T2"] = "exited" THEN task_chan
                    ELSE Append(task_chan, "Terminate")
    /\ Goto("T1", "drop_join")
    /\ UNCHANGED << mutexRest, mutex, paused, shutting_down, event_chan, reply, instrLeft, pauseNo,
                                  nreq, hook >>

\* Drop: handle.join()
MxDropJoin ==
    /\ at["T1"] = "drop_join"
    /\ at["T2"] = "exited"
    /\ Goto("T1", "done")
    /\ UNCHANGED << mutexRest, mutex, paused, shutting_down, task_chan, event_chan, reply,
                                  instrLeft, pauseNo, nreq, hook >>

MutexWorker ==
    \/ MxStart
    \/ MxRecv
    \/ MxEvalDone
    \/ MxStepLock
    \/ MxStepTest
    \/ MxStepSend
    \/ MxExec
    \/ MxDbgLock
    \/ MxDbgPause
    \/ MxDbgSend
    \/ MxDrainTask
    \/ MxDrainEmpty
    \/ MxWaitLock
    \/ MxCheckReturn
    \/ MxCheckWait
    \/ MxSpuriousWake
    \/ MxWakeLock
    \/ MxIterationEnd

MutexRequestThread ==
    \/ MxPauseLock
    \/ MxPauseSet
    \/ MxResumeLock
    \/ MxResumeSet
    \/ MxResumeNotify
    \/ MxInspectSend
    \/ MxInspectLock
    \/ MxInspectTest
    \/ MxInspectNotify
    \/ MxInspectRecv
    \/ MxDropLock
    \/ MxDropSet
    \/ MxDropNotify
    \/ MxDropEvent
    \/ MxDropTerm
    \/ MxDropJoin

NextMutex == MutexWorker \/ MutexRequestThread

SpecMutex == InitMutex /\ [][NextMutex]_vars


(* ------------------------------ claims --------------------------------- *)
InspectionPending == \E i \in 1..Len(task_chan) : IsInspection(task_chan[i])

\* C1: inspection during a pause never deadlocks: no reachable state has the
\* worker asleep on the condvar in wait_for_resume with an inspection task
\* pending in the task channel and the request thread blocked on the reply.
C1_NoInspectionDeadlock ==
    ~(w = "wait" /\ paused /\ InspectionPending /\ t1 = "insp_recv"
      /\ reply.state = "none")


\* C2: resume is never lost: once DebugSession::resume() has completed while
\* the worker is in the wait loop, the worker leaves the wait loop (unless a
\* later pause() or the shutdown of the session intervenes).
ResumeCompleted == InWaitLoop /\ ~paused /\ ~shutting_down /\ t1 # "res_notify"

C2_ResumeNeverLost == ResumeCompleted ~> (~InWaitLoop \/ paused \/ shutting_down)

C2_Witness ==
    /\ w = "check" /\ hook = "dbg" /\ ~paused
    /\ t1 = "send" /\ request.command = "continue"


\* C3: each of next, stepIn and stepOut, issued while the worker is asleep in
\* the wait loop, calls resume(): it clears paused and notifies the condvar, so
\* the worker is woken.
StepCommands == {"next", "stepIn", "stepOut"}

C3_StepRequestsResume ==
    [][ ( /\ t1 = "idle" /\ t1' = "send"
          /\ request'.command \in StepCommands
          /\ responses'[1].success
          /\ w = "wait" )
        => (~paused' /\ w' # "wait") ]_vars


\* C4: shutdown terminates everything: when the DebugEvalContext is dropped
\* while the worker is suspended in the wait loop, the worker never ends up
\* blocked on the task channel's recv() with the Terminate task gone (consumed
\* by the wait loop) while Drop waits in join.
C4_ShutdownTerminates ==
    ~(request.command = "dropWhileWaiting" /\ t1 = "drop_join"
      /\ w = "recv" /\ task_chan = << >>)

\* C5: in every reachable state, paused is true if and only if the worker is
\* inside the host-hook wait loop.
C5_PausedIffWaitLoop == paused <=> InWaitLoop

\* the worker is processing a task (running a script) outside a host hook
ProcessingOutsideHook == w \in {"run", "exec"} \cup EvalResults /\ hook = "none"

\* C6: paused goes from false to true only by a step of the worker inside
\* the host-hook adapter; no step of the request thread sets it while the
\* worker is processing a task outside a host-hook call.
C6_PausedSetOnlyInHook ==
    [][ (ProcessingOutsideHook /\ ~paused /\ paused')
            => (w = "exec" /\ w' = "dbg_send" /\ hook' = "dbg") ]_vars

\* C8: when handle_request returns, whatever the command and whether it
\* succeeded, failed to decode, was unknown or was disconnect, it returns
\* exactly one message, a response whose request_seq is the seq of the
\* request and whose command is the request's command.
C8_OneResponsePerRequest ==
    t1 = "send" =>
        /\ Len(responses) = 1
        /\ responses[1].type = "response"
        /\ responses[1].request_seq = request.seq
        /\ responses[1].command = request.command

\* a request that failed to decode, answered with a seq other than its own
C8_Witness ==
    /\ t1 = "send"
    /\ request.command = "continue"
    /\ ~responses[1].success
    /\ responses[1].request_seq = request.seq
    /\ responses[1].seq # request.seq

ResumeCommands == {"continue", "next", "stepIn", "stepOut"}

\* C9: when a continue, next, stepIn or stepOut has completed, the variable
\* references of the session are empty, whatever scopes requests came before.
C9_ReferencesClearedOnResume ==
    (t1 = "send" /\ request.command \in ResumeCommands /\ responses[1].success)
        => variable_references = {}

\* C10: in the order the client receives them, every evaluate / stackTrace
\* response serviced inside the wait loop of a pause comes after the stopped
\* event of that pause.
C10_StoppedBeforeInspection ==
    \A i \in 1..Len(outbound) :
        (outbound[i].kind = "response" /\ outbound[i].pause > 0)
            => \E j \in 1..(i - 1) :
                   /\ outbound[j].kind = "stopped"
                   /\ outbound[j].pause = outbound[i].pause

\* C7: in the order the messages are written to the client (responses,
\* events made by the server, output events sent by the logger), every
\* message has a seq greater than that of every message written before it.
C7_SeqStrictlyIncreasing ==
    \A i, j \in 1..Len(outbound) :
        (i < j /\ outbound[i].kind # "stopped" /\ outbound[j].kind # "stopped")
            => outbound[i].seq < outbound[j].seq

IsStopped(event) == event.type = "Stopped"

\* C11: the events the worker sent are passed to the forwarder's event
\* handler in the order they were sent, none dropped and none twice, up to
\* the first Shutdown: the k-th Stopped event handled (or still queued) is
\* the k-th one sent, Shutdown is the last event handled, and every Stopped
\* event sent before it was handled before it.
C11_EventsHandledInOrder ==
    LET all == handled \o event_chan
        st == SelectSeq(all, IsStopped)
    IN /\ \A i \in 1..Len(st) : st[i].pause = i
       /\ fwd # "exited" => Len(st) = pauseNo
       /\ \A i \in 1..Len(handled) :
             handled[i].type = "Shutdown"
                 => /\ i = Len(handled)
                    /\ handled[i].pause = i - 1

\* two pauses and the end of the session, all handled
C11_Witness ==
    /\ Len(handled) = 3
    /\ handled[1].type = "Stopped"
    /\ handled[2].type = "Stopped"
    /\ handled[3].type = "Shutdown"

\* C12: a request whose command is not one of the honored ones is answered
\* by a single response with success = false whose message contains the
\* phrase "not implemented", and session and debugger state are unchanged.
C12_UnknownCommandNotImplemented ==
    [][ (t1 = "idle" /\ t1' = "send" /\ request'.command = "unknownCommand")
            => /\ Len(responses') = 1
               /\ ~responses'[1].success
               /\ Contains(responses'[1].message, << "not", "implemented" >>)
               /\ UNCHANGED << debuggerVars, bpVars, sessionVars >> ]_vars

\* C13: the messages returned for a successful initialize request, which are
\* written to the client one after the other, are the response carrying the
\* capability record and, right behind it, an `initialized` event.
C13_InitializedEventFollows ==
    (t1 = "send" /\ request.command = "initialize" /\ responses[1].success)
        => /\ responses[1].body = "Capabilities"
           /\ Len(responses) >= 2
           /\ responses[2].type = "event"
           /\ responses[2].event = "initialized"

\* C14: when a disconnect request has been handled while the worker is
\* suspended in the wait loop, the shutting_down flag is set and the condvar
\* has been notified, so that the worker no longer sleeps.
C14_DisconnectSignalsShutdown ==
    [][ (t1 = "idle" /\ t1' = "send" /\ request'.command = "disconnect"
            /\ w = "wait")
            => (shutting_down' /\ w' # "wait") ]_vars

\* C15: once a terminated event has been written to the client, no stopped
\* event is written after it.
C15_NoStoppedAfterTerminated ==
    \A i, j \in 1..Len(outbound) :
        (i < j /\ outbound[i].kind = "event" /\ outbound[i].name = "terminated")
            => outbound[j].kind # "stopped"

\* C16: when the worker finishes an ExecuteNonBlocking task (eval has
\* returned and the pending jobs have run) it sends a Terminated event on
\* the event channel, and no reply.
C16_TerminatedAfterExecution ==
    [][ (w \in EvalResults /\ w' = "recv" /\ fwd = "run")
            => /\ Len(event_chan') = Len(event_chan) + 1
               /\ event_chan'[Len(event_chan')].type = "Terminated"
               /\ reply' = reply ]_vars


SetBreakpointsHandled ==
    /\ t1 = "idle" /\ t1' = "send"
    /\ request'.command = "setBreakpoints"
    /\ responses'[1].success

Distinct(list) == \A i, j \in 1..Len(list) : i # j => list[i] # list[j]

BreakpointsOf(bps, script) == { b \in bps : b.script = script }

\* C17: when a setBreakpoints request naming pairwise different lines has been
\* handled, the debugger's breakpoints for the script of the request's source
\* sit on exactly the requested lines (none when the list is empty), and the
\* DAP ids mapped to them are exactly the ids of the response; this is so
\* already in a session that knows a single source.
C17_BreakpointsReplaced ==
    [][ (SetBreakpointsHandled /\ Distinct(request'.arguments.lines)
            /\ Cardinality(source_to_script') = 1)
            => LET args == request'.arguments
                   body == responses'[1].body
                   set == BreakpointsOf(breakpoints',
                                        ScriptIdOf(source_to_script', args.path))
               IN /\ { b.line : b \in set }
                        = { args.lines[i] : i \in 1..Len(args.lines) }
                  /\ { e[1] : e \in { m \in breakpoint_mapping' :
                                          \E b \in set : b.id = m[2] } }
                        = { body[i].id : i \in 1..Len(body) } ]_vars

C19_DistinctScriptIds ==
    \A e1, e2 \in source_to_script : e1[1] # e2[1] => e1[2] # e2[2]

LaunchResponse(m) == m.kind = "response" /\ m.name = "launch" /\ m.success

\* C20: in what the client receives for a launch, the successful launch
\* response comes first, the output events follow it, and the terminated
\* event comes after them: a terminated event has a launch response somewhere
\* before it, with every output event written so far between the two.
C20_LaunchResponseFirst ==
    \A i \in 1..Len(outbound) :
        (outbound[i].kind = "event" /\ outbound[i].name = "terminated")
            => \E j \in 1..(i - 1) :
                  /\ LaunchResponse(outbound[j])
                  /\ \A k \in 1..Len(outbound) :
                        (outbound[k].kind = "event" /\ outbound[k].name = "output")
                            => (j < k /\ k < i)

\* C21: when the worker's run of the launched script has ended with an
\* interpreter error, handling the error emits something towards the client
\* (the stderr output event, then terminated): an event on the event channel
\* or a message on the outbound stream.
C21_ErrorOutputThenTerminated ==
    [][ (w = "eval_err" /\ w' = "recv" /\ fwd = "run")
            => (event_chan' # event_chan \/ outbound' # outbound) ]_vars

\* C22: in either transport mode the request loop comes to an end (it breaks
\* out or returns) once the input is exhausted; it does not stay in the loop
\* for ever.
C22_LoopEndsAtEndOfInput == <>(lp \in {"ended", "failed"})

\* the loop has read all there is
LoopAtRest == lp \in {"ended", "failed"} \/ (lp = "header" /\ stream = << >>)

\* the bodies of the messages of the given kinds, in the order sent
BodiesOf(kinds) ==
    LET sent == SelectSeq([k \in 1..Len(frames) |-> k],
                          LAMBDA k : frames[k] \in kinds)
    IN [i \in 1..Len(sent) |-> BodyOf(sent[i])]

\* C23: on an input of well-formed messages and messages whose Content-Length
\* header is missing or unparsable, the loop does not end in an error, and
\* when it has read everything it has dispatched exactly the well-formed
\* requests, in order.
C23_MalformedFrameSkipped ==
    (LoopAtRest /\ \A k \in 1..Len(frames) :
                       frames[k] \in {"plain", "missing", "unparsable"})
        => (lp # "failed" /\ received = BodiesOf({"plain"}))

\* C24: on an input of messages that carry Content-Length alone or with one
\* more header line before or after it, the loop has, when it has read
\* everything, dispatched the body of every message, in order.
C24_ExtraHeadersIgnored ==
    (LoopAtRest /\ \A k \in 1..Len(frames) :
                       frames[k] \in {"plain", "extraBefore", "extraAfter"})
        => received = BodiesOf({"plain", "extraBefore", "extraAfter"})

\* C25: a request whose arguments cannot be decoded is answered by one
\* response with success = false whose message carries the decoder's error
\* text, and leaves the debugger, the breakpoints and the session state as
\* they were.
C25_DecodeFailureAnswered ==
    [][ (t1 = "idle" /\ nreq' = nreq + 1 /\ ~request'.arguments.decoded)
            => /\ t1' = "send"
               /\ Len(responses') = 1
               /\ ~responses'[1].success
               /\ Contains(responses'[1].message, << SerdeError >>)
               /\ UNCHANGED << debuggerVars, bpVars, sessionVars >> ]_vars

\* C26: a stackTrace request handled before the worker has ever paused, and
\* while nothing is paused, is answered at once by one successful response
\* whose list of stack frames is empty.
C26_StackTraceBeforePause ==
    [][ (t1 = "idle" /\ nreq' = nreq + 1 /\ request'.command = "stackTrace"
            /\ pauseNo = 0 /\ ~paused)
            => /\ t1' = "send"
               /\ Len(responses') = 1
               /\ responses'[1].success
               /\ responses'[1].body = << >> ]_vars

\* C27: a continue request handled while nothing is paused changes neither
\* the debugger state (paused, step mode, breakpoints) nor the session state
\* (running, stopped_reason, variable references), and its response is a
\* success saying that all threads continued.
C27_ContinueWithoutPauseIsNoOp ==
    [][ /\ (t1 = "idle" /\ nreq' = nreq + 1 /\ request'.command = "continue"
                /\ request'.arguments.decoded /\ ~paused)
            => UNCHANGED << paused, step_mode, breakpoints, running,
                            stopped_reason, variable_references >>
        /\ (t1 = "res_notify" /\ t1' = "send")
            => /\ responses'[1].success
               /\ responses'[1].body = "allThreadsContinued" ]_vars

\* C28: when the worker thread has given up during start-up (the context,
\* its setup or the debugger attach failed), the response written for the
\* launch request is not a success.
C28_WorkerStartFailureFailsLaunch ==
    [][ (t1 = "send" /\ t1' = "idle" /\ request.command = "launch"
            /\ request.arguments.decoded /\ w = "exited")
            => ~responses[1].success ]_vars

\* C29: the stream holds whole frames only: every header is followed by the
\* body and the flush of the same message before another message starts, at
\* most one thread is between taking and releasing the lock, and the request
\* thread does not hold the lock while it waits for the next request.
FrameParts == << "header", "body", "flush" >>
InsideLock(th) == wpos[th] \in {"header", "body", "flush", "unlock"}
C29_WritesMutuallyExclusive ==
    /\ \A i \in 1..Len(wire) :
         /\ wire[i].part = FrameParts[((i - 1) % 3) + 1]
         /\ ((i - 1) % 3 # 0) => wire[i].by = wire[i - 1].by
    /\ \A th \in Writers : InsideLock(th) => writer = th
    /\ wpos["T1"] = "read" => writer # "T1"

\* the forwarder wrote a message, the request thread is inside its own and
\* the forwarder is back at the lock
C29_Witness ==
    /\ Len(wire) >= 4
    /\ wire[1].by = "forwarder"
    /\ wpos["T1"] = "body"
    /\ wpos["T3"] = "lock"

\* C30: the forwarder runs before the program is submitted, and every
\* Stopped event the worker emits is passed to the forwarder's handler.
\* As stated, without exception: once more Stopped events are emitted than
\* handled, the handler catches up.
StoppedHandled == Len(SelectSeq(handled, IsStopped))
ForwarderStartedFirst ==
    [][ (t1 = "launch_exec" /\ task_chan' # task_chan) => fwd = "run" ]_vars

LastHandled == handled'[Len(handled')]
C31_ForwarderTerminates ==
    [][ /\ (Len(handled') = Len(handled) + 1
               /\ LastHandled.type \in {"Terminated", "Shutdown"})
            => fwd' = "exited"
        /\ fwd = "exited" => handled' = handled ]_vars

\* C32: when the wait loop dequeues an Execute or ExecuteNonBlocking task,
\* the task leaves the channel without being evaluated (no script is
\* started, the caller of a blocking execute() finds its result channel
\* closed), paused is unchanged and the worker stays in the drain loop.
C32_ExecutionTaskDroppedWhilePaused ==
    [][ (w = "drain" /\ task_chan # << >> /\ IsExecution(Head(task_chan))
            /\ task_chan' = Tail(task_chan))
            => /\ w' = "drain"
               /\ UNCHANGED << paused, shutting_down, hook, instrLeft, pauseNo >>
               /\ Head(task_chan) = "Execute" => reply'.state = "closed" ]_vars

\* the caller of execute() is at its recv with the channel closed while the
\* worker, still paused, is in the wait loop
C32_Witness ==
    /\ InWaitLoop
    /\ paused
    /\ t1 = "insp_recv"
    /\ request.command = "execute"
    /\ reply.state = "closed"
    /\ task_chan = << >>

\* C33: the wait loop returns Ok only with paused false, and from its locked
\* check it does so whenever paused is false, shutting_down or not; it
\* returns an error only after dequeuing Terminate or on finding
\* shutting_down while paused; paused without shutting_down, it waits.
WaitReturns == InWaitLoop /\ ~InWaitLoop'
WaitReturnedOk ==
    /\ hook' = "none"
    /\ \/ hook = "step" /\ w' = "exec" /\ instrLeft' = instrLeft
       \/ hook = "dbg" /\ w' = "run" /\ instrLeft' = instrLeft - 1
WaitReturnedErr == hook' = "none" /\ w' = "run" /\ instrLeft' = 0

ChannelSteps(th) ==
    IF th = "T2" THEN {"recv", "drain", "step_send", "dbg_send"}
    ELSE {"insp_recv", "drop_event", "drop_term"}

ServicedWhilePaused ==
    /\ w = "drain"
    /\ task_chan # << >>
    /\ IsInspection(Head(task_chan))
    /\ task_chan' = Tail(task_chan)

C35_InspectionServiceKeepsPause ==
    [][ ServicedWhilePaused =>
          /\ UNCHANGED << paused, shutting_down, step_mode >>
          /\ UNCHANGED << event_chan, pauseNo >>
          /\ w' = "drain"
          /\ UNCHANGED << hook, instrLeft >>
          /\ reply'.state \in {"ok", "err"} ]_vars

C35_Witness ==
    /\ w = "drain"
    /\ paused
    /\ t1 = "insp_recv"
    /\ reply.state = "ok"
    /\ reply.pause = pauseNo
    /\ pauseNo >= 1

(* C36: on every call on_step decides in this order: it pauses and sends
   Stopped "step" when should_pause_for_step(depth) holds; else it pauses and
   sends Stopped "breakpoint" when (script, pc) matches a breakpoint; otherwise
   it returns at once, without pausing, blocking or sending an event.  Stated
   for the two cases that do not depend on the frame depth or on the pc: a step
   mode that asks for a pause at every depth, and a step mode that asks for none
   with no breakpoint set at all. *)
should_pause_for_step(sm, depth) ==
    CASE sm[1] = "None" -> FALSE
      [] sm[1] = "Into" -> TRUE
      [] sm[1] = "Over" -> depth <= sm[2]
      [] OTHER -> depth < sm[2]

FrameDepths == 0..MaxFrames

OnStepCalled == w = "run" /\ instrLeft > 0 /\ w' # w

C36_OnStepDecides ==
    [][ OnStepCalled =>
          /\ (\A depth \in FrameDepths : should_pause_for_step(step_mode, depth))
               => /\ paused'
                  /\ InWaitLoop'
                  /\ event_chan' = EventSend(StoppedEvent("step"))
          /\ ( /\ \A depth \in FrameDepths : ~should_pause_for_step(step_mode, depth)
               /\ breakpoints = {} )
               => /\ w' = "exec"
                  /\ UNCHANGED << paused, event_chan >> ]_vars

(* C37: each scopes request answers with exactly two scopes, Local and then
   Global, bound to two distinct references that were never handed out before:
   both are at or above the counter, no reference in the map is, and the
   counter never goes down. *)
ScopesAnswered ==
    /\ t1 = "idle"
    /\ t1' = "send"
    /\ request'.command = "scopes"
    /\ responses'[1].success

C37_ScopesReferencesFresh ==
    [][ /\ ScopesAnswered =>
             LET scopes == responses'[1].body IN
             /\ Len(scopes) = 2
             /\ scopes[1].name = "Local"
             /\ scopes[2].name = "Global"
             /\ scopes[1].variables_reference # scopes[2].variables_reference
             /\ \A i \in 1..2 :
                    /\ scopes[i].variables_reference >= next_variable_reference
                    /\ scopes[i].variables_reference < next_variable_reference'
                    /\ scopes[i].variables_reference \notin variable_references
                    /\ scopes[i].variables_reference \in variable_references'
        /\ next_variable_reference' >= next_variable_reference
        /\ \A r \in variable_references' : r < next_variable_reference' ]_vars

C37_Witness ==
    /\ t1 = "send"
    /\ request.command = "scopes"
    /\ responses # << >>
    /\ responses[1].success
    /\ responses[1].body[1].variables_reference = 3
    /\ responses[1].body[2].variables_reference = 4
    /\ variable_references = {1, 2, 3, 4}

(* C38: a blocking execute() call made while the worker is suspended in the
   wait loop returns to its caller: the Execute task is eventually dequeued and
   dropped and the call gets an error, with no resume, shutdown or inspection
   request needed. *)
ExecuteQueuedInWaitLoop ==
    /\ InWaitLoop
    /\ t1 = "insp_recv"
    /\ request.command = "execute"
    /\ reply.state = "none"
    /\ \E i \in 1..Len(task_chan) : task_chan[i] = "Execute"

ExecuteReturned == t1 # "insp_recv"

C38_ExecuteWhilePausedReturns == ExecuteQueuedInWaitLoop ~> ExecuteReturned

(* C39: every GetStackTrace or Evaluate task that is in the task channel while
   the worker thread is alive is answered, by the task loop or by the wait
   loop: as long as the worker does not exit, the task's reply arrives. *)
InspectionAnswered == reply.state = "ok" /\ ~InspectionPending

C39_InspectionTaskAnswered ==
    (InspectionPending /\ w # "exited") ~> (InspectionAnswered \/ w = "exited")

(* C40: once the worker thread has exited, a call of execute(),
   get_stack_trace() or evaluate() gets an error and does not block: a call made
   after the exit finds the channel closed, a call whose task was still queued
   when the worker exited finds its result channel closed, and no call is left
   waiting for a reply that cannot come. *)
CallSteps == {"insp_check", "insp_notify", "insp_recv"}

ResultTaskQueued == \E i \in 1..Len(task_chan) : HasResultTx(task_chan[i])

C40_CallsFailAfterWorkerExit ==
    [][ /\ (w = "exited" /\ t1 = "idle" /\ t1' \in CallSteps)
             => reply'.state = "closed"
        /\ (w # "exited" /\ w' = "exited" /\ ResultTaskQueued)
             => reply'.state = "closed"
        /\ (w' = "exited" /\ t1' \in CallSteps)
             => (reply'.state \in {"ok", "err", "closed"} /\ task_chan' = << >>)
        /\ (t1 = "insp_recv" /\ reply.state = "closed" /\ t1' = "send")
             => ~responses'[1].success ]_vars

C40_Witness ==
    /\ w = "exited"
    /\ t1 = "insp_check"
    /\ reply.state = "closed"
    /\ task_chan = << >>

=============================================================================
